---- MODULE Spec2Model ----
(***************************************************************************)
(* LayoutGAN (main.py): the MNIST layout extractor                         *)
(* (MnistLayoutDataset.__getitem__), the loss functions (real_loss,        *)
(* fake_loss) and the adversarial training loop (train_mnist).             *)
(*                                                                         *)
(* Three specifications share the variables:                               *)
(*   SpecExtract  the dataset object and calls of __getitem__              *)
(*   SpecLoss     calls of real_loss / fake_loss on score tensors          *)
(*   Spec         train_mnist, statement group by statement group          *)
(*                                                                         *)
(* Numbers: a coordinate np.float32(2*id+1)/56 is kept as the exact        *)
(* fraction <<2*id+1, 56>>.  float32 rounding is monotone and 0 and 1 are  *)
(* float32 values, so comparisons with 0 and 1 and with fractions that     *)
(* differ by far more than one ulp are the same on the fractions.          *)
(***************************************************************************)
EXTENDS Integers, Sequences, FiniteSets, TLC

\* ------------------------------------------------------------------------
\* Bounds of the model
\* ------------------------------------------------------------------------
\* number of candidate bright cells of an image under extraction
MaxLit == 2
\* largest element_num the extractor is called with in SpecExtract
MaxElementNum == 2
\* largest number of images of the training set
MaxN == 5
\* largest batch_size handed to the DataLoader
MaxBatch == 3
\* largest num_epochs
MaxEpochs == 2
\* height and width of the images of the training set in Spec
TrainDim == 2

\* ------------------------------------------------------------------------
\* Program constants
\* ------------------------------------------------------------------------
\* the divisor of the coordinates, main.py line 47
COORD_DIV == 56
\* default element_num of MnistLayoutDataset, main.py line 29
DEFAULT_ELEMENT_NUM == 128
\* default gt_thresh of MnistLayoutDataset, main.py line 29
DEFAULT_GT_THRESH == 200
\* second dimension of the label tensors, main.py lines 69, 71, 81
LABEL_ELEMENTS == 128
\* rows of one noise sample, main.py lines 163, 164, 190, 191
NOISE_ELEMENTS == 128
\* cls_num, main.py line 95
cls_num == 1
\* geo_num, main.py line 97
geo_num == 2

\* image heights and widths tried by SpecExtract (28 is MNIST)
Dims == {1, 4, 28, 29}
\* grayscale values tried
PixelVals == {0, 200, 255}
\* thresholds tried
GtThreshs == {DEFAULT_GT_THRESH, 255}
\* values a geometry channel of the noise takes (np.random.normal)
GeoVals == {-1, 1}

VARIABLES
    \* ---- MnistLayoutDataset (self.*) ----
    train_data,       \* sequence of images; an image is a sequence of rows
    element_num,
    gt_thresh,
    \* ---- last call of __getitem__ ----
    call_index,       \* index argument (0-based), -1 before any call
    gt_values,        \* the local gt_values at the end of the call
    item,             \* [status, value]: "none" | "returned" | an exception name
    \* ---- last call of real_loss / fake_loss ----
    D_out,            \* shape of the score tensor handed in
    loss_call,        \* [fn, smooth, labels, input, status]
    \* ---- train_mnist ----
    pc,
    num_epochs,
    loader_batch_size,\* batch_size given to the DataLoader (line 113)
    disc_trailing,    \* discriminator emits [b, e, 1] (TRUE) or [b, e]
    epoch,
    batch_i,
    batch_size,       \* the local, reassigned at line 147
    real_images,
    zlist,
    zlist2,
    fake_images,
    fake_images2,
    d_grad,           \* gradients held by the discriminator's parameters
    g_grad,           \* gradients held by the generator's parameters
    pending,          \* loss graph waiting for backward()
    opt_log,          \* optimizer steps taken, in order
    gen_log,          \* generator invocations, in order
    batch_log,        \* batches the loader has yielded, in order
    writer_log,       \* calls of writer.add_scalar / add_figure
    draws,            \* number of noise batches drawn so far
    error             \* exception that ended train_mnist, or "none"

extractVars == <<train_data, element_num, gt_thresh, call_index, gt_values, item>>
lossVars == <<D_out, loss_call>>
trainVars == <<pc, num_epochs, loader_batch_size, disc_trailing, epoch, batch_i,
               batch_size, real_images, zlist, zlist2, fake_images, fake_images2,
               d_grad, g_grad, pending, opt_log, gen_log, batch_log, writer_log,
               draws, error>>
vars == <<extractVars, lossVars, trainVars>>

\* ------------------------------------------------------------------------
\* Fractions
\* ------------------------------------------------------------------------
RatLT(a, b) == a[1] * b[2] < b[1] * a[2]
RatEQ(a, b) == a[1] * b[2] = b[1] * a[2]
PointEQ(p, q) == p[1] = q[1] /\ RatEQ(p[2], q[2]) /\ RatEQ(p[3], q[3])

\* ------------------------------------------------------------------------
\* MnistLayoutDataset.__getitem__
\* ------------------------------------------------------------------------
\* line 47: torch.Tensor([1, np.float32(2*id+1)/56, np.float32(2*jd+1)/56])
LayoutElement(id, jd) == <<1, <<2 * id + 1, COORD_DIV>>, <<2 * jd + 1, COORD_DIV>>>>

\* lines 42-47: the inner loop over one row i, enumerate index jd
RECURSIVE ScanRow(_, _, _, _)
ScanRow(i, id, jd, thresh) ==
    IF jd >= Len(i) THEN <<>>
    ELSE (IF i[jd + 1] >= thresh THEN <<LayoutElement(id, jd)>> ELSE <<>>)
         \o ScanRow(i, id, jd + 1, thresh)

\* lines 41-47: the outer loop over the rows of img, enumerate index id
RECURSIVE ScanImage(_, _, _)
ScanImage(img, id, thresh) ==
    IF id >= Len(img) THEN <<>>
    ELSE ScanRow(img[id + 1], id, 0, thresh) \o ScanImage(img, id + 1, thresh)

\* lines 39-47
GtValues(img, thresh) == ScanImage(img, 0, thresh)

\* line 53: random.randint(0, n - 1) has the outcomes 0..n-1; with n = 0 the
\* range is empty and randint raises ValueError
RandintOutcomes(n) == 0 .. (n - 1)

\* lines 49-57: ridxs are the element_num values random.randint returned.
\* The first draw from an empty gt_values raises ValueError; with
\* element_num = 0 no draw is made and torch.stack([]) raises RuntimeError.
GetItem(img, thresh, en, ridxs) ==
    LET gv == GtValues(img, thresh)
    IN  IF en > 0 /\ Len(gv) = 0
            THEN [status |-> "ValueError", value |-> <<>>]
        ELSE IF en = 0
            THEN [status |-> "RuntimeError", value |-> <<>>]
        ELSE [status |-> "returned",
              value |-> [k \in 1 .. en |-> gv[ridxs[k] + 1]]]

\* the sequences of draws __getitem__ can make on gt_values of length n
DrawSeqs(n, en) == IF n = 0 \/ en = 0 THEN {<<>>}
                   ELSE [1 .. en -> RandintOutcomes(n)]

\* ---- images of SpecExtract ----
\* candidate bright cells (0-based row, column): the corners of the image
Cell(k, H, W) ==
    CASE k % 4 = 1 -> <<0, 0>>
      [] k % 4 = 2 -> <<H - 1, W - 1>>
      [] k % 4 = 3 -> <<0, W - 1>>
      [] OTHER     -> <<H - 1, 0>>

\* the H x W image that is 0 except vals[k] at candidate cell k (a later
\* candidate on the same cell wins)
MkImage(H, W, vals) ==
    [r \in 1 .. H |->
        [c \in 1 .. W |->
            LET ks == {k \in DOMAIN vals : Cell(k, H, W) = <<r - 1, c - 1>>}
            IN  IF ks = {} THEN 0
                ELSE vals[CHOOSE k \in ks : \A j \in ks : j <= k]]]

ExtractImages ==
    {MkImage(H, W, vals) : H \in Dims, W \in Dims, vals \in [1 .. MaxLit -> PixelVals]}

NoPending == [name |-> "none", graph |-> {}, epoch |-> -1, batch_i |-> -1]
NoTensor == [shape |-> <<>>, graph |-> {}, noise |-> 0]
NoNoise == [draw |-> 0, z |-> <<>>]
NoItem == [status |-> "none", value |-> <<>>]
NoLossCall == [fn |-> "none", smooth |-> FALSE, labels |-> <<>>, input |-> <<>>,
               status |-> "none"]

TrainIdle ==
    /\ pc = "idle" /\ num_epochs = 0 /\ loader_batch_size = 0
    /\ disc_trailing = FALSE /\ epoch = 0 /\ batch_i = 0 /\ batch_size = 0
    /\ real_images = <<>> /\ zlist = NoNoise /\ zlist2 = NoNoise
    /\ fake_images = NoTensor /\ fake_images2 = NoTensor
    /\ d_grad = {} /\ g_grad = {} /\ pending = NoPending
    /\ opt_log = <<>> /\ gen_log = <<>> /\ batch_log = <<>> /\ writer_log = {}
    /\ draws = 0 /\ error = "none"

LossIdle == D_out = <<>> /\ loss_call = NoLossCall

\* lines 29-34: the dataset object after construction
InitExtract ==
    /\ train_data \in {<<img>> : img \in ExtractImages}
    /\ element_num \in 0 .. MaxElementNum
    /\ gt_thresh \in GtThreshs
    /\ call_index = -1 /\ gt_values = <<>> /\ item = NoItem
    /\ LossIdle /\ TrainIdle

\* lines 36-57: one call dataset[index]
CallGetItem ==
    /\ \E index \in 0 .. (Len(train_data) - 1) :
         LET img == train_data[index + 1]
             gv == GtValues(img, gt_thresh)
         IN  \E ridxs \in DrawSeqs(Len(gv), element_num) :
                /\ call_index' = index
                /\ gt_values' = gv
                /\ item' = GetItem(img, gt_thresh, element_num, ridxs)
    /\ UNCHANGED <<train_data, element_num, gt_thresh, lossVars, trainVars>>

NextExtract == CallGetItem

SpecExtract == InitExtract /\ [][NextExtract]_vars

\* C1 (as claimed): for an image with at least one pixel >= gt_thresh, a call
\* with element_num >= 1 returns exactly element_num points, each with
\* class_flag 1 and both coordinates strictly between 0 and 1, whatever the
\* image dimensions.
HasForeground ==
    /\ call_index >= 0
    /\ \E r \in DOMAIN train_data[call_index + 1] :
         \E c \in DOMAIN train_data[call_index + 1][r] :
            train_data[call_index + 1][r][c] >= gt_thresh

InUnitOpen(x) == RatLT(<<0, 1>>, x) /\ RatLT(x, <<1, 1>>)

C1_SampleInUnitSquare ==
    (pc = "idle" /\ HasForeground /\ element_num >= 1) =>
        /\ item.status = "returned"
        /\ Len(item.value) = element_num
        /\ \A k \in DOMAIN item.value :
              /\ item.value[k][1] = 1
              /\ InUnitOpen(item.value[k][2])
              /\ InUnitOpen(item.value[k][3])

\* C2 (as claimed): a call on an image with no pixel >= gt_thresh ends with
\* EmptyLayoutError.
C2_EmptyLayoutError ==
    (pc = "idle" /\ call_index >= 0 /\ ~HasForeground) =>
        item.status = "EmptyLayoutError"

\* C3 (as claimed): the foreground point set is exactly
\* {(1, (2*row+1)/(2*H), (2*col+1)/(2*W)) : pixel[row][col] >= gt_thresh} with
\* H, W the image's dimensions, and every returned point is in that set.
ClaimedPoints(img, thresh) ==
    {<<1, <<2 * (r - 1) + 1, 2 * Len(img)>>, <<2 * (c - 1) + 1, 2 * Len(img[r])>>>> :
        <<r, c>> \in {rc \in (DOMAIN img) \X (1 .. Len(img[1])) :
                        img[rc[1]][rc[2]] >= thresh}}

C3_PointSetByDimensions ==
    (pc = "idle" /\ call_index >= 0) =>
        LET claimed == ClaimedPoints(train_data[call_index + 1], gt_thresh)
            built == {gt_values[k] : k \in DOMAIN gt_values}
            sample == {item.value[k] : k \in DOMAIN item.value}
        IN  /\ \A p \in built : \E q \in claimed : PointEQ(p, q)
            /\ \A q \in claimed : \E p \in built : PointEQ(p, q)
            /\ \A p \in sample : \E q \in claimed : PointEQ(p, q)

\* ------------------------------------------------------------------------
\* real_loss, fake_loss
\* ------------------------------------------------------------------------
\* Tensor.squeeze(): every dimension of size 1 is removed
Squeeze(shape) == SelectSeq(shape, LAMBDA d : d # 1)

\* nn.BCEWithLogitsLoss()(input, target): ValueError unless the two sizes
\* are equal, otherwise a scalar
BCEWithLogits(input, labels) ==
    IF input = labels.shape THEN "ok" ELSE "ValueError"

\* lines 63-74; a label tensor is its shape and the value of all its entries
\* (a fraction)
real_loss(scores, smooth) ==
    LET b == scores[1]
        labels == IF smooth
                    THEN [shape |-> <<b, LABEL_ELEMENTS>>, value |-> <<9, 10>>]
                    ELSE [shape |-> <<b, LABEL_ELEMENTS>>, value |-> <<1, 1>>]
    IN  [fn |-> "real_loss", smooth |-> smooth, labels |-> labels,
         input |-> Squeeze(scores),
         status |-> BCEWithLogits(Squeeze(scores), labels)]

\* lines 77-84
fake_loss(scores) ==
    LET b == scores[1]
        labels == [shape |-> <<b, LABEL_ELEMENTS>>, value |-> <<0, 1>>]
    IN  [fn |-> "fake_loss", smooth |-> FALSE, labels |-> labels,
         input |-> Squeeze(scores),
         status |-> BCEWithLogits(Squeeze(scores), labels)]

\* element counts of the score tensors tried by SpecLoss
LossElementNums == {1, 2, 64, LABEL_ELEMENTS, 256}

\* the score tensors of the discriminator contract: [b, e] or [b, e, 1]
ScoreShapes ==
    {<<b, e>> : b \in 1 .. MaxBatch, e \in LossElementNums}
    \cup {<<b, e, 1>> : b \in 1 .. MaxBatch, e \in LossElementNums}

DatasetIdle ==
    /\ train_data = <<>> /\ element_num = 0 /\ gt_thresh = 0
    /\ call_index = -1 /\ gt_values = <<>> /\ item = NoItem

InitLoss ==
    /\ D_out \in ScoreShapes
    /\ loss_call = NoLossCall
    /\ DatasetIdle /\ TrainIdle

CallRealLoss ==
    /\ \E smooth \in BOOLEAN : loss_call' = real_loss(D_out, smooth)
    /\ UNCHANGED <<D_out, extractVars, trainVars>>

CallFakeLoss ==
    /\ loss_call' = fake_loss(D_out)
    /\ UNCHANGED <<D_out, extractVars, trainVars>>

NextLoss == CallRealLoss \/ CallFakeLoss

SpecLoss == InitLoss /\ [][NextLoss]_vars

\* C6 (as claimed): for every batch_size >= 1 and every element_num the label
\* tensor has the shape of the squeezed scores, [batch_size, element_num],
\* and the loss is computed without a shape error.
C6_LabelsMatchScores ==
    loss_call.fn # "none" =>
        /\ loss_call.labels.shape = <<D_out[1], D_out[2]>>
        /\ loss_call.labels.shape = loss_call.input
        /\ loss_call.status = "ok"

\* ------------------------------------------------------------------------
\* train_mnist
\* ------------------------------------------------------------------------
\* A tensor computed by a network is kept as its shape, the set of networks
\* whose parameters its autograd graph reaches ("G", "D") and, for generator
\* outputs, the number of the noise draw it was computed from.  A gradient
\* buffer is the set of backward passes accumulated into it since it was
\* last zeroed; a backward pass is named by its loss and training step.

Min(a, b) == IF a <= b THEN a ELSE b

\* shape of a stacked batch [b, e, f]
Shape3(t) == <<Len(t), Len(t[1]), Len(t[1][1])>>

\* lines 112-113: DataLoader(dataset, batch_size) with its defaults:
\* sequential sampler, drop_last=False.  The 0-based indices of batch k.
BatchIndices(k, bs, n) == [j \in 1 .. Min(bs, n - k * bs) |-> k * bs + j - 1]

\* mutant of NumBatches: the loader built with drop_last=True
NumBatchesDropLast(bs, n) == n \div bs

\* number of batches of one epoch, len(loader)
NumBatches(bs, n) == (n + bs - 1) \div bs

\* np.concatenate((a, b), axis=1)
Concatenate(a, b) == [i \in DOMAIN a |-> a[i] \o b[i]]

\* mutant of NoiseSample: the class channels are left out of z
NoiseSampleNoClass(g) == [i \in 1 .. NOISE_ELEMENTS |-> [j \in 1 .. geo_num |-> g]]

\* lines 163-166 (and 190-193): one z; g stands for the values
\* np.random.normal puts in the geometry channels
NoiseSample(g) ==
    LET cls_z == [i \in 1 .. NOISE_ELEMENTS |-> [j \in 1 .. cls_num |-> 1]]
        geo_z == [i \in 1 .. NOISE_ELEMENTS |-> [j \in 1 .. geo_num |-> g]]
    IN  Concatenate(cls_z, geo_z)

\* lines 161-167 (and 188-194): for i in range(batch_size): zlist.append(z).
\* One value g stands for all the normal draws of the batch.
NoiseBatch(b, g) == [i \in 1 .. b |-> NoiseSample(g)]

\* models.Generator: output of the shape of its input
Generator(noise) ==
    [shape |-> Shape3(noise.z), graph |-> {"G"}, noise |-> noise.draw]

\* models.RelationDiscriminator: scores [b, e] or [b, e, 1]
Discriminator(shape, graph, trailing) ==
    [shape |-> <<shape[1], shape[2]>> \o (IF trailing THEN <<1>> ELSE <<>>),
     graph |-> graph \cup {"D"}, noise |-> 0]

\* mutant of ZeroGrad: the gradients are left as they are
ZeroGradNoop(grad) == grad

\* optimizer.zero_grad()
ZeroGrad(grad) == {}

\* mutant of Backward: the pass is not accumulated into the buffer
BackwardNone(grad, owner, loss) == grad

\* loss.backward(): the pass is accumulated into the gradients of every
\* network the loss's graph reaches
Backward(grad, owner, loss) ==
    IF owner \in loss.graph
        THEN grad \cup {[loss |-> loss.name, epoch |-> loss.epoch,
                         batch_i |-> loss.batch_i]}
        ELSE grad

\* optimizer.step(): the update consumes the gradients held at that moment
OptimizerStep(owner, grad, e, b) ==
    [opt |-> owner, grads |-> grad, epoch |-> e, batch_i |-> b]

\* the step value handed to the writer, lines 155, 177, 180, 210, 227
GlobalStep(e, b) == e + b

\* writer.add_scalar(name, value, step) / writer.add_figure(name, figs, step)
WriterEntry(name, e, b) ==
    [name |-> name, step |-> GlobalStep(e, b), epoch |-> e, batch_i |-> b]

\* images of the training set: TrainDim x TrainDim, blank or one bright cell
TrainImages == {MkImage(TrainDim, TrainDim, vals) : vals \in [1 .. 1 -> {0, 255}]}

\* the draws of the __getitem__ calls of one batch
BatchDrawSeqs(indices) ==
    LET choices(j) == DrawSeqs(Len(GtValues(train_data[indices[j] + 1], gt_thresh)),
                               element_num)
    IN  {f \in [DOMAIN indices -> UNION {choices(j) : j \in DOMAIN indices}] :
            \A j \in DOMAIN indices : f[j] \in choices(j)}

\* lines 89-137: the state when the epoch loop is entered
Init ==
    /\ train_data \in UNION {[1 .. n -> TrainImages] : n \in 1 .. MaxN}
    /\ element_num = DEFAULT_ELEMENT_NUM
    /\ gt_thresh = DEFAULT_GT_THRESH
    /\ call_index = -1 /\ gt_values = <<>> /\ item = NoItem
    /\ LossIdle
    /\ pc = "epoch_loop"
    /\ num_epochs \in 1 .. MaxEpochs
    /\ loader_batch_size \in 1 .. MaxBatch
    /\ disc_trailing \in BOOLEAN
    /\ epoch = 0 /\ batch_i = 0
    /\ batch_size = loader_batch_size
    /\ real_images = <<>> /\ zlist = NoNoise /\ zlist2 = NoNoise
    /\ fake_images = NoTensor /\ fake_images2 = NoTensor
    /\ d_grad = {} /\ g_grad = {} /\ pending = NoPending
    /\ opt_log = <<>> /\ gen_log = <<>> /\ batch_log = <<>> /\ writer_log = {}
    /\ draws = 0 /\ error = "none"

datasetFields == <<train_data, element_num, gt_thresh>>
config == <<num_epochs, loader_batch_size, disc_trailing>>

\* lines 140-141: the next epoch starts; batch_i counts the batches the
\* loader has yielded in this epoch
StartEpoch ==
    /\ pc = "epoch_loop" /\ epoch < num_epochs
    /\ pc' = "batch_loop"
    /\ batch_i' = 0
    /\ UNCHANGED <<extractVars, lossVars, config, epoch, batch_size, real_images,
                   zlist, zlist2, fake_images, fake_images2, d_grad, g_grad,
                   pending, opt_log, gen_log, batch_log, writer_log, draws, error>>

\* line 140: range(num_epochs) is exhausted, train_mnist returns
Finish ==
    /\ pc = "epoch_loop" /\ epoch >= num_epochs
    /\ pc' = "done"
    /\ UNCHANGED <<extractVars, lossVars, config, epoch, batch_i, batch_size,
                   real_images, zlist, zlist2, fake_images, fake_images2, d_grad,
                   g_grad, pending, opt_log, gen_log, batch_log, writer_log,
                   draws, error>>

\* line 142: the loader is exhausted, the epoch ends
EndEpoch ==
    /\ pc = "batch_loop"
    /\ batch_i >= NumBatches(loader_batch_size, Len(train_data))
    /\ epoch' = epoch + 1
    /\ pc' = "epoch_loop"
    /\ UNCHANGED <<extractVars, lossVars, config, batch_i, batch_size,
                   real_images, zlist, zlist2, fake_images, fake_images2, d_grad,
                   g_grad, pending, opt_log, gen_log, batch_log, writer_log,
                   draws, error>>

\* lines 142-147: the loader yields batch batch_i: __getitem__ for each of
\* its indices in order, stacked; the first call that raises ends the run
NextBatch ==
    /\ pc = "batch_loop"
    /\ batch_i < NumBatches(loader_batch_size, Len(train_data))
    /\ LET indices == BatchIndices(batch_i, loader_batch_size, Len(train_data))
       IN  \E rs \in BatchDrawSeqs(indices) :
            LET items == [j \in DOMAIN indices |->
                            GetItem(train_data[indices[j] + 1], gt_thresh,
                                    element_num, rs[j])]
                bad == {j \in DOMAIN indices : items[j].status # "returned"}
                last == IF bad = {} THEN Len(indices)
                        ELSE CHOOSE j \in bad : \A i \in bad : j <= i
            IN  /\ call_index' = indices[last]
                /\ gt_values' = GtValues(train_data[indices[last] + 1], gt_thresh)
                /\ item' = items[last]
                /\ batch_log' = Append(batch_log,
                        [epoch |-> epoch, batch_i |-> batch_i, indices |-> indices])
                /\ IF bad = {}
                     THEN /\ real_images' = [j \in DOMAIN indices |-> items[j].value]
                          /\ batch_size' = Len(indices)
                          /\ pc' = "d_real"
                          /\ error' = "none"
                     ELSE /\ UNCHANGED <<real_images, batch_size>>
                          /\ pc' = "raised"
                          /\ error' = items[last].status
    /\ UNCHANGED <<datasetFields, lossVars, config, epoch, batch_i, zlist, zlist2,
                   fake_images, fake_images2, d_grad, g_grad, pending, opt_log,
                   gen_log, writer_log, draws>>

\* lines 150-155: zero the discriminator's gradients, score the real batch
DiscriminatorReal ==
    /\ pc = "d_real"
    /\ d_grad' = ZeroGrad(d_grad)
    /\ LET discriminator_real == Discriminator(Shape3(real_images), {}, disc_trailing)
           call == real_loss(discriminator_real.shape, FALSE)
       IN  /\ D_out' = discriminator_real.shape
           /\ loss_call' = call
           /\ IF call.status = "ok"
                THEN /\ pending' = [name |-> "discriminator_real_loss",
                                    graph |-> discriminator_real.graph,
                                    epoch |-> epoch, batch_i |-> batch_i]
                     /\ writer_log' = writer_log \cup
                            {WriterEntry("Discriminator Real Loss", epoch, batch_i)}
                     /\ pc' = "d_fake"
                     /\ error' = "none"
                ELSE /\ UNCHANGED <<pending, writer_log>>
                     /\ pc' = "raised"
                     /\ error' = call.status
    /\ UNCHANGED <<extractVars, config, epoch, batch_i, batch_size, real_images,
                   zlist, zlist2, fake_images, fake_images2, g_grad, opt_log,
                   gen_log, batch_log, draws>>

\* lines 161-180: draw zlist, generate, score the fakes, sum the two losses
DiscriminatorFake ==
    /\ pc = "d_fake"
    /\ \E g \in GeoVals :
         LET noise == [draw |-> draws + 1, z |-> NoiseBatch(batch_size, g)]
             fake == Generator(noise)
             discriminator_fake == Discriminator(fake.shape, fake.graph, disc_trailing)
             call == fake_loss(discriminator_fake.shape)
         IN  /\ zlist' = noise
             /\ draws' = draws + 1
             /\ fake_images' = fake
             /\ gen_log' = Append(gen_log,
                    [epoch |-> epoch, batch_i |-> batch_i, noise |-> noise.draw,
                     shape |-> Shape3(noise.z)])
             /\ D_out' = discriminator_fake.shape
             /\ loss_call' = call
             /\ IF call.status = "ok"
                  THEN /\ pending' = [name |-> "discriminator_loss",
                                      graph |-> pending.graph \cup discriminator_fake.graph,
                                      epoch |-> epoch, batch_i |-> batch_i]
                       /\ writer_log' = writer_log \cup
                            {WriterEntry("Discriminator Fake Loss", epoch, batch_i),
                             WriterEntry("Discriminator Total Loss", epoch, batch_i)}
                       /\ pc' = "d_backward"
                       /\ error' = "none"
                  ELSE /\ UNCHANGED <<pending, writer_log>>
                       /\ pc' = "raised"
                       /\ error' = call.status
    /\ UNCHANGED <<extractVars, config, epoch, batch_i, batch_size, real_images,
                   zlist2, fake_images2, d_grad, g_grad, opt_log, batch_log>>

\* line 182: discriminator_loss.backward()
DiscriminatorBackward ==
    /\ pc = "d_backward"
    /\ d_grad' = Backward(d_grad, "D", pending)
    /\ g_grad' = Backward(g_grad, "G", pending)
    /\ pc' = "d_step"
    /\ UNCHANGED <<extractVars, lossVars, config, epoch, batch_i, batch_size,
                   real_images, zlist, zlist2, fake_images, fake_images2, pending,
                   opt_log, gen_log, batch_log, writer_log, draws, error>>

\* line 183: discriminator_optimizer.step()
DiscriminatorStep ==
    /\ pc = "d_step"
    /\ opt_log' = Append(opt_log, OptimizerStep("D", d_grad, epoch, batch_i))
    /\ pc' = "g_forward"
    /\ UNCHANGED <<extractVars, lossVars, config, epoch, batch_i, batch_size,
                   real_images, zlist, zlist2, fake_images, fake_images2, d_grad,
                   g_grad, pending, gen_log, batch_log, writer_log, draws, error>>

\* lines 187-203: zero the generator's gradients, draw zlist2, generate,
\* score, generator_loss = real_loss(...)
GeneratorForward ==
    /\ pc = "g_forward"
    /\ g_grad' = ZeroGrad(g_grad)
    /\ \E g \in GeoVals :
         LET noise == [draw |-> draws + 1, z |-> NoiseBatch(batch_size, g)]
             fake == Generator(noise)
             discriminator_fake == Discriminator(fake.shape, fake.graph, disc_trailing)
             call == real_loss(discriminator_fake.shape, FALSE)
         IN  /\ zlist2' = noise
             /\ draws' = draws + 1
             /\ fake_images2' = fake
             /\ gen_log' = Append(gen_log,
                    [epoch |-> epoch, batch_i |-> batch_i, noise |-> noise.draw,
                     shape |-> Shape3(noise.z)])
             /\ D_out' = discriminator_fake.shape
             /\ loss_call' = call
             /\ IF call.status = "ok"
                  THEN /\ pending' = [name |-> "generator_loss",
                                      graph |-> discriminator_fake.graph,
                                      epoch |-> epoch, batch_i |-> batch_i]
                       /\ pc' = "g_backward"
                       /\ error' = "none"
                  ELSE /\ UNCHANGED pending
                       /\ pc' = "raised"
                       /\ error' = call.status
    /\ UNCHANGED <<extractVars, config, epoch, batch_i, batch_size, real_images,
                   zlist, fake_images, d_grad, opt_log, batch_log, writer_log>>

\* line 206: generator_loss.backward()
GeneratorBackward ==
    /\ pc = "g_backward"
    /\ d_grad' = Backward(d_grad, "D", pending)
    /\ g_grad' = Backward(g_grad, "G", pending)
    /\ pc' = "g_step"
    /\ UNCHANGED <<extractVars, lossVars, config, epoch, batch_i, batch_size,
                   real_images, zlist, zlist2, fake_images, fake_images2, pending,
                   opt_log, gen_log, batch_log, writer_log, draws, error>>

\* mutant of GeneratorStep: the discriminator's optimizer is stepped again
GeneratorStepWrongOptimizer ==
    /\ pc = "g_step"
    /\ opt_log' = Append(opt_log, OptimizerStep("D", d_grad, epoch, batch_i))
    /\ pc' = "report"
    /\ UNCHANGED <<extractVars, lossVars, config, epoch, batch_i, batch_size,
                   real_images, zlist, zlist2, fake_images, fake_images2, d_grad,
                   g_grad, pending, gen_log, batch_log, writer_log, draws, error>>

\* line 207: generator_optimizer.step()
GeneratorStep ==
    /\ pc = "g_step"
    /\ opt_log' = Append(opt_log, OptimizerStep("G", g_grad, epoch, batch_i))
    /\ pc' = "report"
    /\ UNCHANGED <<extractVars, lossVars, config, epoch, batch_i, batch_size,
                   real_images, zlist, zlist2, fake_images, fake_images2, d_grad,
                   g_grad, pending, gen_log, batch_log, writer_log, draws, error>>

\* lines 210-230: the generator loss and one figure per image of
\* fake_images2 go to the writer; the loop turns to the next batch
Report ==
    /\ pc = "report"
    /\ writer_log' = writer_log \cup
            {WriterEntry("Generator Loss", epoch, batch_i),
             WriterEntry("Generated Points", epoch, batch_i)}
    /\ batch_i' = batch_i + 1
    /\ pc' = "batch_loop"
    /\ UNCHANGED <<extractVars, lossVars, config, epoch, batch_size, real_images,
                   zlist, zlist2, fake_images, fake_images2, d_grad, g_grad,
                   pending, opt_log, gen_log, batch_log, draws, error>>

Next ==
    \/ StartEpoch \/ NextBatch \/ DiscriminatorReal \/ DiscriminatorFake
    \/ DiscriminatorBackward \/ DiscriminatorStep \/ GeneratorForward
    \/ GeneratorBackward \/ GeneratorStep \/ Report \/ EndEpoch \/ Finish

Spec == Init /\ [][Next]_vars

\* ------------------------------------------------------------------------
\* Properties of train_mnist
\* ------------------------------------------------------------------------
\* the training steps begun so far: one per batch the loader yielded
StepsBegun == {k \in DOMAIN batch_log : TRUE}

\* step k has run to its end (its report is the last statement group)
StepComplete(k) ==
    \/ k < Len(batch_log)
    \/ pc \in {"batch_loop", "epoch_loop", "done"}

\* step k has passed both optimizer steps
StepUpdated(k) == StepComplete(k) \/ pc = "report"

OptStepsOf(o, k) ==
    {i \in DOMAIN opt_log : /\ opt_log[i].opt = o
                            /\ opt_log[i].epoch = batch_log[k].epoch
                            /\ opt_log[i].batch_i = batch_log[k].batch_i}

\* C4: within a training step the discriminator optimizer and the generator
\* optimizer step at most once each, the generator's only after the
\* discriminator's, and exactly once each in a step that has passed its
\* updates; over the run the optimizer steps alternate D, G, D, G, ...
C4_UpdateOrder ==
    /\ \A i \in DOMAIN opt_log : opt_log[i].opt = IF i % 2 = 1 THEN "D" ELSE "G"
    /\ \A k \in StepsBegun :
        /\ Cardinality(OptStepsOf("D", k)) <= 1
        /\ Cardinality(OptStepsOf("G", k)) <= 1
        /\ \A i \in OptStepsOf("G", k) : \E j \in OptStepsOf("D", k) : j < i
        /\ StepUpdated(k) => /\ Cardinality(OptStepsOf("D", k)) = 1
                             /\ Cardinality(OptStepsOf("G", k)) = 1

C4_Witness == pc = "done" /\ Len(opt_log) >= 4

\* batches the loader yielded in epoch e
BatchesOf(e) == {k \in DOMAIN batch_log : batch_log[k].epoch = e}

\* C5: in every epoch the loader yields the images in dataset order: batch k
\* is the run of consecutive indices from k*batch_size, of batch_size
\* indices, or of the N mod batch_size that are left when it is the last and
\* N is no multiple; a finished epoch has every index in exactly one batch;
\* the step works with the size of the batch it received.
C5_BatchesPartition ==
    LET N == Len(train_data)
        bs == loader_batch_size
    IN  /\ \A k \in DOMAIN batch_log :
            LET ix == batch_log[k].indices
                b == batch_log[k].batch_i
            IN  /\ Len(ix) >= 1
                /\ ix[1] = b * bs
                /\ \A j \in 1 .. (Len(ix) - 1) : ix[j + 1] = ix[j] + 1
                /\ ix[Len(ix)] <= N - 1
                /\ Len(ix) = bs \/ (ix[Len(ix)] = N - 1 /\ Len(ix) = N % bs)
        /\ \A e \in 0 .. (epoch - 1) :
            \A i \in 0 .. (N - 1) :
                Cardinality({k \in BatchesOf(e) :
                    \E j \in DOMAIN batch_log[k].indices :
                        batch_log[k].indices[j] = i}) = 1
        /\ pc \in {"d_real", "d_fake", "d_backward", "d_step", "g_forward",
                   "g_backward", "g_step", "report"} =>
             /\ batch_size = Len(batch_log[Len(batch_log)].indices)
             /\ Len(real_images) = batch_size

C5_Witness ==
    /\ pc = "done"
    /\ \E k \in DOMAIN batch_log :
         /\ Len(batch_log[k].indices) < loader_batch_size
         /\ batch_log[k].batch_i >= 1

GenCallsOf(k) ==
    {i \in DOMAIN gen_log : /\ gen_log[i].epoch = batch_log[k].epoch
                            /\ gen_log[i].batch_i = batch_log[k].batch_i}

ClassChannelsAreOne(noise) ==
    \A s \in DOMAIN noise.z : \A r \in DOMAIN noise.z[s] :
        \A j \in 1 .. cls_num : noise.z[s][r][j] = 1

\* C7: the generator runs at most twice in a training step and exactly twice
\* in a step that has passed its updates; its i-th invocation of the run is
\* fed the i-th noise batch drawn (each batch is drawn after the preceding
\* invocation and fed once); every noise batch has the shape
\* [b, element_num, cls_num + geo_num], b the size of the step's real batch,
\* and ones in its first cls_num channels.
C7_FreshNoise ==
    /\ \A i \in DOMAIN gen_log : gen_log[i].noise = i
    /\ draws = Len(gen_log)
    /\ \A k \in StepsBegun :
        /\ Cardinality(GenCallsOf(k)) <= 2
        /\ StepUpdated(k) => Cardinality(GenCallsOf(k)) = 2
        /\ \A i \in GenCallsOf(k) :
             gen_log[i].shape = <<Len(batch_log[k].indices), element_num,
                                  cls_num + geo_num>>
    /\ ClassChannelsAreOne(zlist) /\ ClassChannelsAreOne(zlist2)
    /\ zlist.draw # 0 => zlist.draw # zlist2.draw

C7_Witness ==
    /\ pc = "report" /\ Len(gen_log) >= 4
    /\ batch_size < loader_batch_size

\* the backward pass of loss name in the step of an optimizer-log entry
PassOf(name, entry) ==
    [loss |-> name, epoch |-> entry.epoch, batch_i |-> entry.batch_i]

\* C8: every optimizer step consumes gradients that hold exactly one
\* backward pass: the discriminator's step that of the current step's
\* discriminator_loss, the generator's step that of the current step's
\* generator_loss.
C8_NoGradientLeak ==
    \A i \in DOMAIN opt_log :
        opt_log[i].grads =
            {PassOf(IF opt_log[i].opt = "D" THEN "discriminator_loss"
                    ELSE "generator_loss", opt_log[i])}

C8_Witness ==
    /\ pc = "d_step" /\ Len(opt_log) >= 2
    /\ \E p \in g_grad : p.loss = "discriminator_loss"

\* C9 (as claimed): the discriminator's gradients are cleared again after its
\* optimizer step, so they are zero when the generator phase begins.
C9_ClearedAfterStep == pc = "g_forward" => d_grad = {}

\* C9 (amended): the discriminator's gradients are cleared once per step,
\* before the discriminator phase; they are empty until discriminator_loss is
\* backpropagated, and when the generator phase begins they still hold
\* exactly the current step's discriminator_loss pass.
C9_ClearedBeforePhaseOnly ==
    /\ pc \in {"d_fake", "d_backward"} => d_grad = {}
    /\ pc = "g_forward" =>
         d_grad = {[loss |-> "discriminator_loss", epoch |-> epoch,
                    batch_i |-> batch_i]}

C9_Witness == pc = "g_forward" /\ Len(opt_log) >= 3 /\ d_grad # {}

\* C10 (as claimed): two different training steps of a run never send the
\* same name with the same step value to the writer.
C10_StepKeysUnique ==
    \A x \in writer_log : \A y \in writer_log :
        (x.name = y.name /\ x.step = y.step) =>
            (x.epoch = y.epoch /\ x.batch_i = y.batch_i)

====
